---- MODULE Spec2Model ----
(***************************************************************************)
(* Model of the SQL safety validator (src/src/utils/sql_validator.py) and  *)
(* of the query-generation stage that gates execution on its verdict       *)
(* (src/src/agents/sql_agent.py), of the review stage and its iteration    *)
(* logic (src/src/agents/qa_agent.py), of the visualization stage          *)
(* (src/src/agents/visualization_agent.py) and of the workflow graph that  *)
(* chains them (src/langgraph_api/server.py).                              *)
(*                                                                         *)
(* A SQL text is modelled as the sequence of its lexical tokens.  Two      *)
(* neighbouring tokens are separated by one blank, except that a ";" is    *)
(* written directly after the token before it ("SELECT 5;"); the lexeme    *)
(* " " is a run of additional whitespace, which matters at the two ends of *)
(* a text (str.strip), and the lexeme "" is the empty text, which only     *)
(* _ensure_limit produces.  A value that is not a string (JSON null, a     *)
(* number) is the value None.                                              *)
(***************************************************************************)
EXTENDS Integers, Sequences, FiniteSets, TLC

VARIABLES
    sql_query,      \* validator harness: the input of validate_sql
    vpc,            \* validator harness: "call" | "validated" | "revalidated"
    verdict,        \* validator harness: validate_sql(sql_query)
    reverdict,      \* validator harness: validate_sql(verdict.safe_query)
    pc,             \* process_query: position in the coroutine
    llm_response,   \* process_query: what the LLM capability answers
    validation_result, \* process_query: the verdict obtained at step 5
    executed,       \* the texts handed to db_manager.execute_query, in order
    result,         \* process_query: the returned record
    qpc,            \* validate_report: "idle" | "call" | "llm" | "done"
    qa_response,    \* validate_report: what the LLM capability answers
    iteration_count,          \* the iteration_count of the request
    settings_max_iterations,  \* settings.max_iterations
    qa_result,      \* validate_report: the returned record
    vzpc,           \* create_visualization: position in the coroutine
    data_results,   \* create_visualization: the rows to plot
    chart_response, \* create_visualization: what the LLM capability answers
    chart_decision, \* create_visualization: the parsed chart decision
    viz_error,      \* create_visualization: the exception being handled
    viz_result,     \* create_visualization: what the call returned or raised
    wf_node,        \* workflow: the node of the graph the run is at
    max_iterations, \* workflow state: ReportState.max_iterations
    state_errors,   \* workflow state: ReportState.errors
    generating_entries, \* workflow: how many times sql_agent was entered
    last_route,     \* workflow: the label of the last routing decision
    stage_trace,    \* workflow: the nodes run so far, in order
    ppc,            \* generate_report: position in the coroutine
    pdf_input,      \* generate_report: its arguments
    pdf_html,       \* generate_report: the template the HTML came from
    pdf_result,     \* generate_report: what the call returned or raised
    clock,          \* metadata cache: datetime.now(), in half hours
    cache,          \* MetadataManager._cache
    last_update,    \* MetadataManager._last_update
    db_up,          \* metadata cache: whether the database answers
    lookup,         \* metadata cache: where the lookup of each task stands
    returned,       \* metadata cache: what the lookups returned in the
                    \* latest step of the manager
    calls,          \* metadata cache: how many calls the tasks have made
    dpc,            \* execute_query: position in the coroutine
    db_call,        \* execute_query: the query and what the backend does
    db_exc,         \* execute_query: the exception in flight
    session,        \* execute_query: the session of get_async_session
    db_outcome      \* execute_query: what the call returned or raised

valVars == <<sql_query, vpc, verdict, reverdict>>
agentVars == <<pc, llm_response, validation_result, executed, result>>
qaVars == <<qpc, qa_response, iteration_count, settings_max_iterations,
            qa_result>>
vizVars == <<vzpc, data_results, chart_response, chart_decision, viz_error,
             viz_result>>
wfVars == <<wf_node, max_iterations, state_errors, generating_entries,
           last_route, stage_trace>>
stageVars == <<qaVars, vizVars, wfVars>>
pdfVars == <<ppc, pdf_input, pdf_html, pdf_result>>
cacheVars == <<clock, cache, last_update, db_up, lookup, returned, calls>>
dbVars == <<dpc, db_call, db_exc, session, db_outcome>>
restVars == <<pdfVars, cacheVars, dbVars>>

vars == <<valVars, agentVars, stageVars, restVars>>

----------------------------------------------------------------------------
(* Bounds of the model *)

MaxLen == 4
MaxLimitLen == 5
MaxScoreLen == 8
MaxIterations == 3
MaxClock == 2
MaxCalls == 2
MaxAgentLen == 3

----------------------------------------------------------------------------
(* Values *)

None == <<"<None>">>
WS == " "

\* A key that a record does not have
Absent == <<"<absent>">>

\* The lexemes inputs are drawn from: every kind of token the validator tells
\* apart, and the ones that carry a LIMIT clause and its nesting.
InputLexemes ==
    {"SELECT", "DELETE", "DROP", "EXPLAIN", "WITH", "(", ")", ";",
     "LIMIT", "5", "20000", WS}
LimitLexemes == {"SELECT", "LIMIT", "5", "20000", "(", ")"}

\* An identifier of 1001 characters, and the lexemes of the texts whose
\* length and number of JOINs weigh on the security score.
LongName == "name_of_1001_characters"
ScoreLexemes == {"SELECT", "JOIN", LongName}

\* self.max_query_length, self.max_result_limit, self.default_limit
max_query_length == 5000
max_result_limit == 10000
default_limit == 1000
max_iterations_default == 3

\* self._cache_ttl = timedelta(hours=1), in half hours
cache_ttl == 2

allowed_keywords ==
    {"SELECT", "FROM", "WHERE", "JOIN", "INNER", "LEFT", "RIGHT", "FULL", "OUTER",
     "ON", "AND", "OR", "NOT", "IN", "EXISTS", "BETWEEN", "LIKE", "ILIKE",
     "ORDER", "BY", "GROUP", "HAVING", "LIMIT", "OFFSET", "DISTINCT",
     "AS", "ASC", "DESC", "NULL", "IS", "CASE", "WHEN", "THEN", "ELSE", "END",
     "UNION", "INTERSECT", "EXCEPT", "WITH", "RECURSIVE", "CAST", "EXTRACT",
     "DATE_TRUNC", "COALESCE", "NULLIF", "COUNT", "SUM", "AVG", "MAX", "MIN",
     "STRING_AGG", "ARRAY_AGG", "ROW_NUMBER", "RANK", "DENSE_RANK", "OVER",
     "PARTITION", "WINDOW", "CURRENT_DATE", "CURRENT_TIME", "CURRENT_TIMESTAMP",
     "INTERVAL", "NOW", "GREATEST", "LEAST", "SUBSTRING", "LENGTH", "TRIM",
     "UPPER", "LOWER", "REPLACE", "CONCAT", "POSITION", "SPLIT_PART"}

forbidden_keywords ==
    {"INSERT", "UPDATE", "DELETE", "DROP", "CREATE", "ALTER", "TRUNCATE",
     "GRANT", "REVOKE", "EXECUTE", "CALL", "DECLARE", "SET", "RESET",
     "COPY", "BULK", "LOAD", "UNLOAD", "BACKUP", "RESTORE", "MERGE",
     "UPSERT", "EXPLAIN", "ANALYZE", "VACUUM", "CLUSTER", "REINDEX"}

known_functions ==
    {"CURRENT_USER", "SESSION_USER", "USER", "VERSION", "PG_BACKEND_PID",
     "TO_CHAR", "TO_DATE", "TO_NUMBER", "TO_TIMESTAMP", "AGE", "CLOCK_TIMESTAMP",
     "TIMEOFDAY", "TRANSACTION_TIMESTAMP", "STATEMENT_TIMESTAMP",
     "MD5", "SHA1", "SHA224", "SHA256", "SHA384", "SHA512",
     "ENCODE", "DECODE", "FORMAT", "LPAD", "RPAD", "REPEAT",
     "REVERSE", "TRANSLATE", "ASCII", "CHR", "INITCAP",
     "ABS", "CEIL", "CEILING", "FLOOR", "ROUND", "TRUNC", "SIGN",
     "EXP", "LN", "LOG", "POWER", "SQRT", "RANDOM",
     "SIN", "COS", "TAN", "ASIN", "ACOS", "ATAN", "ATAN2",
     "DEGREES", "RADIANS", "PI"}

is_known_function(keyword) == keyword \in known_functions

\* The eight regular expressions of self.dangerous_patterns, in order.
dangerous_patterns ==
    <<";", "--", "/\\*.*?\\*/", "xp_cmdshell", "sp_", "exec\\s*\\(", "eval\\s*\\(", "\\$\\$">>

\* re.search(pattern, lexeme, re.IGNORECASE) for one lexeme.
PatternInLexeme(pattern, lex) ==
    CASE pattern = ";"           -> lex = ";"
      [] pattern = "--"          -> lex \in {"--", "-- c"}
      [] pattern = "/\\*.*?\\*/" -> lex = "/* c */"
      [] pattern = "xp_cmdshell" -> lex = "xp_cmdshell"
      [] pattern = "sp_"         -> lex \in {"sp_who", "sp_"}
      [] pattern = "exec\\s*\\(" -> lex = "exec("
      [] pattern = "eval\\s*\\(" -> lex = "eval("
      [] pattern = "\\$\\$"      -> lex = "$$"
      [] OTHER                   -> FALSE

\* re.search(pattern, sql_query, re.IGNORECASE)
re_search(pattern, text) ==
    \E i \in 1..Len(text) : PatternInLexeme(pattern, text[i])

----------------------------------------------------------------------------
(* Strings *)

IsNumber(lex) == lex \in {"5", "1000", "20000"}

\* int(lex) of a run of digits
IntOf(lex) ==
    CASE lex = "5" -> 5
      [] lex = "1000" -> 1000
      [] lex = "20000" -> 20000
      [] OTHER -> 0

\* str(n) of the integers the validator formats
StrOf(n) ==
    CASE n = 5 -> "5"
      [] n = 1000 -> "1000"
      [] n = 20000 -> "20000"
      [] OTHER -> "0"

\* len(lex) in characters
Width(lex) ==
    CASE lex = "" -> 0
      [] lex \in {"(", ")", ";", "5", WS} -> 1
      [] lex = "1000" -> 4
      [] lex \in {"20000", "LIMIT"} -> 5
      [] lex \in {"SELECT", "DELETE"} -> 6
      [] lex \in {"DROP", "WITH"} -> 4
      [] lex = "EXPLAIN" -> 7
      [] lex = LongName -> 1001
      [] OTHER -> 4

RECURSIVE SumWidth(_)
SumWidth(text) ==
    IF text = <<>> THEN 0 ELSE Width(Head(text)) + SumWidth(Tail(text))

\* len(sql_query): the lexemes and one blank between neighbours, none
\* before a ";"
StrLen(text) ==
    SumWidth(text) + Cardinality({i \in 2..Len(text) : text[i] # ";"})

RECURSIVE LStrip(_)
LStrip(text) ==
    IF text # <<>> /\ Head(text) = WS THEN LStrip(Tail(text)) ELSE text

RECURSIVE RStrip(_)
RStrip(text) ==
    IF text # <<>> /\ text[Len(text)] = WS
    THEN RStrip(SubSeq(text, 1, Len(text) - 1))
    ELSE text

\* str.strip()
Strip(text) == RStrip(LStrip(text))

\* str.endswith(';')
EndsWithSemicolon(text) == text # <<>> /\ text[Len(text)] = ";"

\* str.count / len(re.findall(word, text))
Count(text, lex) == Cardinality({i \in 1..Len(text) : text[i] = lex})

----------------------------------------------------------------------------
(* sqlparse: token types, statement splitting, grouping of parentheses *)

DMLWords == {"SELECT", "INSERT", "UPDATE", "DELETE", "MERGE", "UPSERT", "REPLACE"}
DDLWords == {"DROP", "CREATE", "ALTER"}
KeywordWords ==
    ((allowed_keywords \cup forbidden_keywords \cup {"INTO", "TABLE", "RETURNING"})
        \ DMLWords) \ (DDLWords \cup {"WITH"})

\* token.ttype as the sqlparse lexer assigns it.  Keyword.DML, Keyword.DDL and
\* Keyword.CTE are token types of their own: each is a child of Keyword, and
\* none of them `is Keyword`.
TType(lex) ==
    CASE lex \in DMLWords -> "Keyword.DML"
      [] lex \in DDLWords -> "Keyword.DDL"
      [] lex = "WITH" -> "Keyword.CTE"
      [] lex \in KeywordWords -> "Keyword"
      [] lex \in {"(", ")", ";", ","} -> "Punctuation"
      [] lex = WS -> "Whitespace"
      [] IsNumber(lex) -> "Number.Integer"
      [] lex \in {"--", "-- c"} -> "Comment.Single"
      [] OTHER -> "Name"

\* The statement splitter: the index of the token that ends the first
\* statement, a ';' met at parenthesis level <= 0, or 0 when there is none.
RECURSIVE SplitAt(_, _, _)
SplitAt(text, i, level) ==
    IF i > Len(text) THEN 0
    ELSE LET lvl == level + (CASE text[i] = "(" -> 1 [] text[i] = ")" -> -1 [] OTHER -> 0)
         IN  IF lvl <= 0 /\ text[i] = ";" THEN i ELSE SplitAt(text, i + 1, lvl)

\* The whitespace that follows the terminator stays with the statement.
RECURSIVE ConsumeWs(_, _)
ConsumeWs(text, i) ==
    IF i < Len(text) /\ text[i + 1] = WS THEN ConsumeWs(text, i + 1) ELSE i

\* sqlparse.parse(sql_query): the tuple of statements; here its length and its
\* first element are what the validator reads.
parse(text) ==
    LET cut == SplitAt(text, 1, 0)
    IN  IF \A i \in 1..Len(text) : text[i] = WS
        THEN <<>>
        ELSE IF cut = 0 THEN <<text>>
        ELSE <<SubSeq(text, 1, ConsumeWs(text, cut))>>

\* The positions of a statement that lie inside a matched pair of parentheses
\* (the pair included): they are sub-tokens of a Parenthesis group, not tokens
\* of parsed_statement.tokens.
RECURSIVE Grouped(_, _, _, _)
Grouped(stmt, i, opens, acc) ==
    IF i > Len(stmt) THEN acc
    ELSE IF stmt[i] = "(" THEN Grouped(stmt, i + 1, <<i>> \o opens, acc)
    ELSE IF stmt[i] = ")" /\ opens # <<>>
         THEN Grouped(stmt, i + 1, Tail(opens), acc \cup (Head(opens)..i))
    ELSE Grouped(stmt, i + 1, opens, acc)

\* The positions of the leaf tokens that are directly in parsed_statement.tokens
TopLevel(stmt) == (1..Len(stmt)) \ Grouped(stmt, 1, <<>>, {})

Min(S) == CHOOSE x \in S : \A y \in S : x <= y

----------------------------------------------------------------------------
(* SQLValidator *)

Err(kind, arg) == <<kind, arg>>

\* _validate_basic_security: the list of errors
validate_basic_security(text) ==
    LET tooLong == IF StrLen(text) > max_query_length
                   THEN <<Err("too_long", "")>> ELSE <<>>
        empty == IF Strip(text) = <<>> THEN <<Err("empty", "")>> ELSE <<>>
        pats == SelectSeq(dangerous_patterns, LAMBDA p : re_search(p, text))
        dangerous == [k \in 1..Len(pats) |-> Err("dangerous_pattern", pats[k])]
        clean_query == Strip(text)
        semicolons == {i \in 1..Len(clean_query) : clean_query[i] = ";"}
        multi == IF semicolons # {} /\ (Len(clean_query) \notin semicolons)
                 THEN <<Err("multiple_statements", "")>> ELSE <<>>
    IN  tooLong \o empty \o dangerous \o multi

\* _validate_structure: the first token of parsed_statement.tokens that is a
\* Keyword SELECT or any DML token; 0 when the loop finds none.
first_token(stmt) ==
    LET hits == {i \in TopLevel(stmt) :
                    \/ (TType(stmt[i]) = "Keyword" /\ stmt[i] = "SELECT")
                    \/ TType(stmt[i]) = "Keyword.DML"}
    IN  IF hits = {} THEN 0 ELSE Min(hits)

validate_structure_errors(stmt) ==
    LET ft == first_token(stmt)
    IN  IF ft = 0 \/ stmt[ft] # "SELECT"
        THEN <<Err("only_select", "")>> ELSE <<>>

validate_structure_warnings(stmt) ==
    LET subquery_count == Count(stmt, "(") + Count(stmt, "SELECT")
    IN  IF subquery_count > 10 THEN <<"complex_query">> ELSE <<>>

\* check_token on one leaf token
check_token(lex) ==
    IF TType(lex) = "Keyword"
    THEN IF lex \in forbidden_keywords THEN <<Err("forbidden_keyword", lex)>>
         ELSE IF lex \notin allowed_keywords /\ ~is_known_function(lex)
              THEN <<Err("unrecognized_keyword", lex)>>
              ELSE <<>>
    ELSE <<>>

\* _validate_keywords: check_token over every token, nested ones included, in
\* the order of the text
RECURSIVE validate_keywords(_)
validate_keywords(stmt) ==
    IF stmt = <<>> THEN <<>>
    ELSE check_token(Head(stmt)) \o validate_keywords(Tail(stmt))

\* The position of the number of a match of LIMIT\s+(\d+) that starts at i,
\* or 0 when there is no match at i.
RECURSIVE SkipWs(_, _)
SkipWs(text, j) ==
    IF j <= Len(text) /\ text[j] = WS THEN SkipWs(text, j + 1) ELSE j

LimitNumberAt(text, i) ==
    LET j == SkipWs(text, i + 1)
    IN  IF text[i] = "LIMIT" /\ j <= Len(text) /\ IsNumber(text[j]) THEN j ELSE 0

LimitMatches(text) == {i \in 1..Len(text) : LimitNumberAt(text, i) # 0}

\* re.search(r'LIMIT\s+(\d+)', sql_query, re.IGNORECASE): the first match's
\* group(1) as an int, or -1 when nothing matches
limit_match(text) ==
    IF LimitMatches(text) = {} THEN -1
    ELSE IntOf(text[LimitNumberAt(text, Min(LimitMatches(text)))])

validate_limits_errors(text) ==
    IF limit_match(text) # -1 /\ limit_match(text) > max_result_limit
    THEN <<Err("limit_too_high", "")>> ELSE <<>>

validate_limits_warnings(text) ==
    IF limit_match(text) = -1 THEN <<"default_limit_added">> ELSE <<>>

\* f"{clean_query} LIMIT {self.default_limit};": the blank before LIMIT is
\* there even when clean_query is empty
formatted_with_limit(clean_query) ==
    (IF clean_query = <<>> THEN <<"">> ELSE clean_query)
        \o <<"LIMIT", StrOf(default_limit), ";">>

\* _ensure_limit with its first test dropped: a LIMIT is appended to every text
ensure_limit_always(text) ==
    LET clean_query == Strip(text)
        cut == IF EndsWithSemicolon(clean_query)
               THEN SubSeq(clean_query, 1, Len(clean_query) - 1)
               ELSE clean_query
    IN  formatted_with_limit(cut)

\* _ensure_limit
ensure_limit(text) ==
    IF LimitMatches(text) # {} THEN text
    ELSE LET clean_query == Strip(text)
             cut == IF EndsWithSemicolon(clean_query)
                    THEN SubSeq(clean_query, 1, Len(clean_query) - 1)
                    ELSE clean_query
         IN  formatted_with_limit(cut)

Max2(a, b) == IF a >= b THEN a ELSE b
Min2(a, b) == IF a <= b THEN a ELSE b

\* _calculate_security_score without the final max(0.0, min(10.0, ...))
calculate_security_score_unclamped(text, errors, warnings) ==
    LET s1 == 100 - Len(errors) * 30
        s2 == s1 - Len(warnings) * 5
        s3 == IF StrLen(text) > 1000 THEN s2 - 10 ELSE s2
        join_count == Count(text, "JOIN")
    IN  IF join_count > 5 THEN s3 - join_count * 2 ELSE s3

\* _calculate_security_score charging only the JOINs beyond the fifth
calculate_security_score_excess_joins(text, errors, warnings) ==
    LET s1 == 100 - Len(errors) * 30
        s2 == s1 - Len(warnings) * 5
        s3 == IF StrLen(text) > 1000 THEN s2 - 10 ELSE s2
        join_count == Count(text, "JOIN")
        s4 == IF join_count > 5 THEN s3 - (join_count - 5) * 2 ELSE s3
    IN  IF s4 < 0 THEN 0 ELSE IF s4 > 100 THEN 100 ELSE s4

\* _calculate_security_score, in tenths of a point
calculate_security_score(text, errors, warnings) ==
    LET s1 == 100 - Len(errors) * 30
        s2 == s1 - Len(warnings) * 5
        s3 == IF StrLen(text) > 1000 THEN s2 - 10 ELSE s2
        join_count == Count(text, "JOIN")
        s4 == IF join_count > 5 THEN s3 - join_count * 2 ELSE s3
    IN  Max2(0, Min2(100, s4))

\* The errors and warnings validate_sql collects, steps 1 to 5
collect_errors(text) ==
    LET parsed == parse(text)
    IN  validate_basic_security(text)
        \o (IF parsed = <<>> THEN <<Err("unparseable", "")>>
            ELSE validate_structure_errors(parsed[1]) \o validate_keywords(parsed[1]))
        \o validate_limits_errors(text)

collect_warnings(text) ==
    LET parsed == parse(text)
    IN  (IF parsed = <<>> THEN <<>> ELSE validate_structure_warnings(parsed[1]))
        \o validate_limits_warnings(text)

\* validate_sql returning the sanitized query whatever the errors
validate_sql_keeps_query(q) ==
    IF q = None
    THEN [valid |-> FALSE, safe_query |-> None, original_query |-> q,
          errors |-> <<Err("validation_error", "")>>, warnings |-> <<>>,
          security_score |-> 0]
    ELSE LET errors == collect_errors(q)
             warnings == collect_warnings(q)
         IN  [valid |-> Len(errors) = 0,
              safe_query |-> ensure_limit(q),
              original_query |-> q,
              errors |-> errors,
              warnings |-> warnings,
              security_score |-> calculate_security_score(q, errors, warnings)]

\* validate_sql.  A sql_query that is not a string makes len() or .strip()
\* raise inside the outer try: the except branch builds the verdict.
validate_sql(q) ==
    IF q = None
    THEN [valid |-> FALSE, safe_query |-> None, original_query |-> q,
          errors |-> <<Err("validation_error", "")>>, warnings |-> <<>>,
          security_score |-> 0]
    ELSE LET errors == collect_errors(q)
             warnings == collect_warnings(q)
             is_valid == Len(errors) = 0
         IN  [valid |-> is_valid,
              safe_query |-> IF is_valid THEN ensure_limit(q) ELSE None,
              original_query |-> q,
              errors |-> errors,
              warnings |-> warnings,
              security_score |-> calculate_security_score(q, errors, warnings)]

----------------------------------------------------------------------------
(* The validator called on a text, then on the sanitized query it returned *)

Texts(lexemes, n) == UNION {[1..k -> lexemes] : k \in 0..n}

Inputs ==
    Texts(InputLexemes, MaxLen) \cup Texts(LimitLexemes, MaxLimitLen)
        \cup Texts(ScoreLexemes, MaxScoreLen)

NoVerdict ==
    [valid |-> FALSE, safe_query |-> None, original_query |-> None,
     errors |-> <<>>, warnings |-> <<>>, security_score |-> 0]

NoResult ==
    [success |-> FALSE, error |-> "", sql_query |-> None, data_results |-> <<>>]

\* The review record before validate_report has returned
NoQA ==
    [approved |-> FALSE, overall_score |-> 0, feedback |-> <<>>,
     specific_issues |-> <<>>, suggestions |-> <<>>, highlights |-> <<>>,
     metadata |-> {}]

NoQAResponse ==
    [kind |-> "raise", approved |-> FALSE, overall_score |-> 0,
     feedback_kind |-> "text", has_lists |-> FALSE]

QAIdle ==
    /\ qpc = "idle"
    /\ qa_response = NoQAResponse
    /\ iteration_count = 1
    /\ settings_max_iterations = max_iterations_default
    /\ qa_result = NoQA

\* The outcome of create_visualization before it has returned
NoViz == [kind |-> "none", success |-> FALSE, chart_type |-> "", error |-> ""]

NoChartResponse == [kind |-> "raise", chart_type |-> "", has_reasoning |-> FALSE]

NoChartDecision == [chart_type |-> "", has_reasoning |-> FALSE]

VizIdle ==
    /\ vzpc = "idle"
    /\ data_results = <<>>
    /\ chart_response = NoChartResponse
    /\ chart_decision = NoChartDecision
    /\ viz_error = ""
    /\ viz_result = NoViz

WfIdle ==
    /\ wf_node = "idle"
    /\ max_iterations = max_iterations_default
    /\ state_errors = <<>>
    /\ generating_entries = 0
    /\ last_route = "none"
    /\ stage_trace = <<>>

\* The arguments and the outcome of generate_report before the call
NoPdfInput ==
    [visualization_image |-> None, data_results |-> <<>>, qa_score |-> 0,
     qa_score_is_number |-> TRUE, qa_approved |-> FALSE]

NoPdf == [kind |-> "none", html |-> ""]

PdfIdle ==
    /\ ppc = "idle"
    /\ pdf_input = NoPdfInput
    /\ pdf_html = ""
    /\ pdf_result = NoPdf

\* The keys of the metadata cache
CacheKeys == {"full_schema", "data_dictionary", "relationships",
              "few_shot_examples"}

\* What _cache and _last_update hold for a key that is not in them
NoEntry == "<no entry>"
NoTime == -1

\* The tasks that call the metadata manager: the one that runs process_query
\* and another one
LookupTasks == {"agent", "other"}

\* A task that is in no lookup.  rest lists the keys the caller of a lookup
\* looks up after it, without being suspended in between (the awaits of
\* refresh_cache and of process_query).
NoLookup ==
    [key |-> "none", phase |-> "idle", left |-> 0, complete |-> TRUE,
     rest |-> <<>>]

\* MetadataManager.__init__: both dictionaries empty
EmptyCache ==
    /\ clock = 0
    /\ cache = [k \in CacheKeys |-> NoEntry]
    /\ last_update = [k \in CacheKeys |-> NoTime]
    /\ lookup = [t \in LookupTasks |-> NoLookup]
    /\ returned = <<>>
    /\ calls = 0

CacheIdle == EmptyCache /\ db_up = TRUE

NoDbCall ==
    [sql_query |-> None, fault |-> "none", fault_type |-> "none",
     rollback_fails |-> FALSE, rows |-> <<>>]

NoSession ==
    [opened |-> FALSE, committed |-> FALSE, rolled_back |-> FALSE,
     closed |-> FALSE]

NoDbOutcome == [kind |-> "none", rows |-> <<>>]

DbIdle ==
    /\ dpc = "idle"
    /\ db_call = NoDbCall
    /\ db_exc = "none"
    /\ session = NoSession
    /\ db_outcome = NoDbOutcome

RestIdle == PdfIdle /\ CacheIdle /\ DbIdle

StagesIdle == QAIdle /\ VizIdle /\ WfIdle /\ RestIdle

AgentIdle ==
    /\ pc = "idle"
    /\ llm_response = [kind |-> "raise", sql_query |-> None]
    /\ validation_result = NoVerdict
    /\ executed = <<>>
    /\ result = NoResult

Init ==
    /\ sql_query \in Inputs \cup {None}
    /\ vpc = "call"
    /\ verdict = NoVerdict
    /\ reverdict = NoVerdict
    /\ AgentIdle
    /\ StagesIdle

\* await validator.validate_sql(sql_query)
Validate ==
    /\ vpc = "call"
    /\ verdict' = validate_sql(sql_query)
    /\ vpc' = "validated"
    /\ UNCHANGED <<sql_query, reverdict>>
    /\ UNCHANGED agentVars
    /\ UNCHANGED stageVars
    /\ UNCHANGED restVars

\* await validator.validate_sql(verdict['safe_query']), for a valid verdict
Revalidate ==
    /\ vpc = "validated"
    /\ verdict.valid
    /\ reverdict' = validate_sql(verdict.safe_query)
    /\ vpc' = "revalidated"
    /\ UNCHANGED <<sql_query, verdict>>
    /\ UNCHANGED agentVars
    /\ UNCHANGED stageVars
    /\ UNCHANGED restVars

Next == Validate \/ Revalidate

Spec == Init /\ [][Next]_vars

----------------------------------------------------------------------------
(* MetadataManager: the four cached lookups, one step per await.  Time is  *)
(* counted in half hours.                                                  *)

\* _is_cache_valid with the entry still valid when its age equals the TTL
is_cache_valid_inclusive(c, lu, key, now) ==
    /\ c[key] # NoEntry
    /\ lu[key] # NoTime
    /\ now - lu[key] <= cache_ttl

\* _is_cache_valid
is_cache_valid(c, lu, key, now) ==
    /\ c[key] # NoEntry
    /\ lu[key] # NoTime
    /\ now - lu[key] < cache_ttl

\* Whether regenerating a key sends queries to the database: the few-shot
\* examples are built from a list in the code.
contacts_database(key) == key # "few_shot_examples"

\* The tables get_table_names finds
DbTables == {"t"}

\* The calls awaited for each table: get_table_info, and get_sample_data for
\* the dictionary
awaits_per_table(key) == IF key = "data_dictionary" THEN 2 ELSE 1

\* The positions at which a lookup is suspended on the database: its first
\* query (get_table_names, or the foreign-key query of get_relationships)
\* and the calls made for each table
InProgress == {"first", "tables"}

\* The text a lookup generates.  get_table_names, get_table_info and
\* get_sample_data catch the fault of the database and answer an empty list
\* or an empty description: without the names the text is empty, and with a
\* call for a table unanswered it lacks the columns or the samples.
generated_value(key, names_ok, complete) ==
    CASE key = "full_schema" ->
            IF ~names_ok THEN "empty schema"
            ELSE IF complete THEN "schema" ELSE "incomplete schema"
      [] key = "data_dictionary" ->
            IF ~names_ok THEN "empty dictionary"
            ELSE IF complete THEN "dictionary" ELSE "incomplete dictionary"
      [] key = "relationships" -> "relationships"
      [] key = "few_shot_examples" -> "examples"

\* The age of the entry of a key, when it has one
age_of(key) ==
    IF last_update[key] = NoTime THEN NoTime ELSE clock - last_update[key]

\* The lookups in the order in which refresh_cache and process_query await
\* them
MetadataKeys ==
    <<"full_schema", "data_dictionary", "relationships", "few_shot_examples">>

\* What a lookup returns to the task
ReturnOf(t, key, value, hit, age) ==
    [task |-> t, key |-> key, value |-> value, hit |-> hit, age |-> age]

\* The task calls the lookups of the keys one after the other, with the
\* dictionaries c and lu: each lookup tests _is_cache_valid and returns the
\* cached value, or runs up to its first await, where the task is suspended,
\* or, having nothing to await, stores its value and returns it
\* (self._cache[cache_key] = value; self._last_update[cache_key] =
\* datetime.now()).  The outcome is the two dictionaries, where the task
\* stands, and what was returned to it (rets, and what is added to it).
RECURSIVE call_lookups(_, _, _, _, _)
call_lookups(t, keys, c, lu, rets) ==
    IF keys = <<>>
    THEN [cache |-> c, last_update |-> lu, lookup |-> NoLookup,
          returned |-> rets]
    ELSE LET key == Head(keys)
             age == IF lu[key] = NoTime THEN NoTime ELSE clock - lu[key]
             value == generated_value(key, TRUE, TRUE)
         IN  IF is_cache_valid(c, lu, key, clock)
             THEN call_lookups(t, Tail(keys), c, lu,
                               Append(rets, ReturnOf(t, key, c[key], TRUE, age)))
             ELSE IF contacts_database(key)
             THEN [cache |-> c, last_update |-> lu,
                   lookup |-> [NoLookup EXCEPT !.key = key, !.phase = "first",
                                               !.rest = Tail(keys)],
                   returned |-> rets]
             ELSE call_lookups(t, Tail(keys),
                               [c EXCEPT ![key] = value],
                               [lu EXCEPT ![key] = clock],
                               Append(rets, ReturnOf(t, key, value, FALSE, age)))

\* The state of the manager after a step of the task with this outcome
becomes(t, outcome) ==
    /\ cache' = outcome.cache
    /\ last_update' = outcome.last_update
    /\ lookup' = [lookup EXCEPT ![t] = outcome.lookup]
    /\ returned' = outcome.returned
    /\ UNCHANGED <<clock, db_up>>

\* A task calls the lookups of the keys
begin_lookup(t, keys) ==
    /\ lookup[t].phase = "idle"
    /\ becomes(t, call_lookups(t, keys, cache, last_update, <<>>))

\* The suspended lookup of the task returns the value, having stored it
\* (the end of the try block) or not (the except clause), and its caller
\* goes on with the lookups that follow
finish_lookup(t, value, stored) ==
    LET l == lookup[t]
    IN  becomes(t, call_lookups(t, l.rest,
                    IF stored THEN [cache EXCEPT ![l.key] = value] ELSE cache,
                    IF stored THEN [last_update EXCEPT ![l.key] = clock]
                    ELSE last_update,
                    <<ReturnOf(t, l.key, value, FALSE, age_of(l.key))>>))

\* The lookup of the task stays suspended, at another position
suspended_at(t, position) ==
    /\ lookup' = [lookup EXCEPT ![t] = position]
    /\ returned' = <<>>
    /\ UNCHANGED <<clock, cache, last_update, db_up>>

\* The database manager returns to a suspended lookup, with the answer of
\* the database or, the database failing, with what it substitutes for it
\* (get_relationships calls execute_query, which raises: its except clause
\* returns an error text and stores nothing)
resume_lookup(t) ==
    LET l == lookup[t]
    IN  /\ l.phase \in InProgress
        /\ IF l.phase = "first"
           THEN IF l.key = "relationships"
                THEN IF db_up
                     THEN finish_lookup(t, generated_value(l.key, TRUE, TRUE),
                                        TRUE)
                     ELSE finish_lookup(t, "-- Error obteniendo relaciones",
                                        FALSE)
                ELSE IF db_up
                     THEN suspended_at(t, [l EXCEPT
                               !.phase = "tables",
                               !.left = awaits_per_table(l.key)
                                           * Cardinality(DbTables)])
                     ELSE finish_lookup(t, generated_value(l.key, FALSE, TRUE),
                                        TRUE)
           ELSE LET m == [l EXCEPT !.left = @ - 1,
                                   !.complete = @ /\ db_up]
                IN  IF m.left = 0
                    THEN finish_lookup(t, generated_value(l.key, TRUE,
                                                          m.complete), TRUE)
                    ELSE suspended_at(t, m)

----------------------------------------------------------------------------
(* SQLAgent.process_query *)

\* What the LLM capability can answer: it raises, or its content is not JSON,
\* is JSON that is not a record, is a record that lacks a required field, or is
\* a record whose sql_query is any text or a value that is not a string.
LLMResponses ==
    {[kind |-> k, sql_query |-> None] :
        k \in {"raise", "bad_json", "non_record", "missing_field"}}
    \cup {[kind |-> "record", sql_query |-> q] :
            q \in Texts(InputLexemes, MaxAgentLen) \cup {None}}

\* The rows the database can return
RowSets == {<<>>, <<"row">>}

ValIdle ==
    /\ sql_query = None
    /\ vpc = "idle"
    /\ verdict = NoVerdict
    /\ reverdict = NoVerdict

AgentInit ==
    /\ pc = "metadata"
    /\ llm_response \in LLMResponses
    /\ validation_result = NoVerdict
    /\ executed = <<>>
    /\ result = NoResult
    /\ ValIdle
    /\ QAIdle /\ VizIdle /\ WfIdle /\ PdfIdle /\ DbIdle
    /\ EmptyCache
    /\ db_up \in BOOLEAN

\* except Exception as e: the failure record
Failure(msg) ==
    [success |-> FALSE, error |-> msg, sql_query |-> None, data_results |-> <<>>]

\* Step 1: the four awaits on the metadata manager, in order, each of them
\* a lookup that is called and, when it has to query the database, resumed.
\* The lookups catch their exceptions, so step 1 does not fail; once
\* get_few_shot_examples has returned, the prompt is formatted and the LLM
\* is called.
FetchMetadata ==
    /\ pc = "metadata"
    /\ IF lookup["agent"].phase \in InProgress
       THEN resume_lookup("agent")
       ELSE begin_lookup("agent", MetadataKeys)
    /\ pc' = IF lookup'["agent"].phase \in InProgress THEN pc ELSE "llm"
    /\ calls' = calls
    /\ UNCHANGED <<llm_response, validation_result, executed, result>>
    /\ UNCHANGED valVars
    /\ UNCHANGED stageVars
    /\ UNCHANGED <<pdfVars, dbVars>>

\* Steps 2-3: format the prompt and await self.llm.ainvoke(messages).
InvokeLLM ==
    /\ pc = "llm"
    /\ IF llm_response.kind = "raise"
       THEN pc' = "done" /\ result' = Failure("llm")
       ELSE pc' = "parse" /\ result' = result
    /\ UNCHANGED <<llm_response, validation_result, executed>>
    /\ UNCHANGED valVars
    /\ UNCHANGED stageVars
    /\ UNCHANGED restVars

\* Step 4: _parse_llm_response raises on content that is not a JSON record
\* with the required fields.
ParseResponse ==
    /\ pc = "parse"
    /\ IF llm_response.kind = "record"
       THEN pc' = "validate" /\ result' = result
       ELSE pc' = "done" /\ result' = Failure("parse")
    /\ UNCHANGED <<llm_response, validation_result, executed>>
    /\ UNCHANGED valVars
    /\ UNCHANGED stageVars
    /\ UNCHANGED restVars

\* Step 5 without its test of the verdict
GateOpen(v) == TRUE

\* Whether step 5 lets the generated query through to step 6.
Gate(v) == v.valid

\* Step 5: validate; an invalid verdict raises ValueError.
ValidateGenerated ==
    /\ pc = "validate"
    /\ validation_result' = validate_sql(llm_response.sql_query)
    /\ IF Gate(validation_result')
       THEN pc' = "execute" /\ result' = result
       ELSE pc' = "done" /\ result' = Failure("invalid_sql")
    /\ UNCHANGED <<llm_response, executed>>
    /\ UNCHANGED valVars
    /\ UNCHANGED stageVars
    /\ UNCHANGED restVars

\* The text step 6 hands to db_manager.execute_query
QueryToExecute(sql_result, v) == sql_result.sql_query

\* Step 6: the query is handed to db_manager.execute_query, in which
\* process_query is suspended until the database has answered.
ExecuteQuery ==
    /\ pc = "execute"
    /\ executed' = Append(executed, QueryToExecute(llm_response, validation_result))
    /\ pc' = "executing"
    /\ UNCHANGED <<llm_response, validation_result, result>>
    /\ UNCHANGED valVars
    /\ UNCHANGED stageVars
    /\ UNCHANGED restVars

\* Step 7, once execute_query has returned the rows: the success record; a
\* database fault raises DatabaseError, which the except clause turns into
\* the failure record.
BuildResult ==
    /\ pc = "executing"
    /\ \/ \E rows \in RowSets :
            result' = [success |-> TRUE, error |-> "",
                       sql_query |-> llm_response.sql_query,
                       data_results |-> rows]
       \/ result' = Failure("database")
    /\ pc' = "done"
    /\ UNCHANGED <<llm_response, validation_result, executed>>
    /\ UNCHANGED valVars
    /\ UNCHANGED stageVars
    /\ UNCHANGED restVars

AgentNext ==
    \/ FetchMetadata
    \/ InvokeLLM
    \/ ParseResponse
    \/ ValidateGenerated
    \/ ExecuteQuery
    \/ BuildResult

AgentSpec == AgentInit /\ [][AgentNext]_vars

----------------------------------------------------------------------------
(* Properties of the query-generation stage *)

HasError(v, kind) == \E i \in 1..Len(v.errors) : v.errors[i][1] = kind

\* The explicit `LIMIT n` clauses of a text: the values n, wherever they stand
LimitValues(text) ==
    {IntOf(text[j]) : j \in {k \in 2..Len(text) :
        /\ IsNumber(text[k])
        /\ \E i \in 1..(k - 1) :
             /\ text[i] = "LIMIT"
             /\ \A m \in (i + 1)..(k - 1) : text[m] = WS}}

\* C1: process_query never calls execute_query with a query whose verdict is
\* invalid: when validate_sql reports an error nothing is executed in that
\* pass and the pass returns success=false with empty data_results.
C1_InvalidNeverExecuted ==
    /\ \A i \in 1..Len(executed) : validate_sql(executed[i]).valid
    /\ (validation_result.errors # <<>>) =>
          /\ executed = <<>>
          /\ pc = "done"
          /\ ~result.success
          /\ result.data_results = <<>>

C1_Witness ==
    /\ pc = "done"
    /\ llm_response.kind = "record"
    /\ validation_result.errors # <<>>
    /\ ~validation_result.valid
    /\ result = Failure("invalid_sql")

\* C2 (as claimed): every text handed to execute_query is the verdict's
\* sanitized query and carries a LIMIT of at most 10000.
C2_ExecutedIsSanitized ==
    \A i \in 1..Len(executed) :
        /\ executed[i] = validation_result.safe_query
        /\ LimitValues(executed[i]) # {}
        /\ \A n \in LimitValues(executed[i]) : n <= max_result_limit

----------------------------------------------------------------------------
(* Properties of the validator *)

Validated == vpc \in {"validated", "revalidated"} /\ sql_query # None

IsKeywordType(t) == t \in {"Keyword", "Keyword.DML", "Keyword.DDL", "Keyword.CTE"}

\* C3 (as claimed): a deny-set keyword anywhere in the parsed statement makes
\* the verdict invalid with a forbidden-keyword error.
C3_DenySetRejected ==
    (/\ Validated
     /\ parse(sql_query) # <<>>
     /\ \E i \in 1..Len(parse(sql_query)[1]) :
          /\ IsKeywordType(TType(parse(sql_query)[1][i]))
          /\ parse(sql_query)[1][i] \in forbidden_keywords)
    => (~verdict.valid /\ HasError(verdict, "forbidden_keyword"))

\* The first keyword of a statement, "" when it has none
LeadingKeyword(stmt) ==
    LET ks == {i \in 1..Len(stmt) : IsKeywordType(TType(stmt[i]))}
    IN  IF ks = {} THEN "" ELSE stmt[Min(ks)]

\* C4 (as claimed): a statement whose leading keyword is neither SELECT nor
\* the CTE introducer WITH is invalid with the only-SELECT error.
C4_LeadingKeywordSelect ==
    (/\ Validated
     /\ parse(sql_query) # <<>>
     /\ LeadingKeyword(parse(sql_query)[1]) \notin {"SELECT", "WITH"})
    => (~verdict.valid /\ HasError(verdict, "only_select"))

\* C5 (as claimed): a ';' before the final character of the text (whitespace
\* around the text not counted) makes the verdict invalid with the
\* multiple-statement error.
C5_SemicolonInsideRejected ==
    (/\ Validated
     /\ \E i \in 1..(Len(Strip(sql_query)) - 1) : Strip(sql_query)[i] = ";")
    => (~verdict.valid /\ HasError(verdict, "multiple_statements"))

\* C6 (as claimed): a text that is a valid single SELECT but for a ';' that is
\* its final character is valid, with no dangerous-pattern and no
\* multiple-statement error.
C6_FinalSemicolonAccepted ==
    (/\ Validated
     /\ EndsWithSemicolon(sql_query)
     /\ Count(sql_query, ";") = 1
     /\ validate_sql(SubSeq(sql_query, 1, Len(sql_query) - 1)).valid)
    => /\ verdict.valid
       /\ ~HasError(verdict, "dangerous_pattern")
       /\ ~HasError(verdict, "multiple_statements")

\* C7 (as claimed): validating the sanitized query of a valid verdict again
\* gives a valid verdict, no default-limit warning and the same sanitized query.
C7_Idempotent ==
    (vpc = "revalidated") =>
        /\ reverdict.valid
        /\ reverdict.warnings = <<>>
        /\ reverdict.safe_query = verdict.safe_query

\* The text without the whitespace around it and without a final ';'
Unterminated(text) ==
    IF EndsWithSemicolon(Strip(text))
    THEN SubSeq(Strip(text), 1, Len(Strip(text)) - 1)
    ELSE Strip(text)

C9_EveryLimitBounded ==
    Validated =>
        /\ (LimitValues(sql_query) # {} /\ \A n \in LimitValues(sql_query) : n <= 10000)
              => ~HasError(verdict, "limit_too_high")
        /\ (\E n \in LimitValues(sql_query) : n > 10000) => ~verdict.valid

WellFormed(v) ==
    /\ v.valid = (v.errors = <<>>)
    /\ (v.safe_query # None) = v.valid

\* C10: every verdict of validate_sql, the one built when validation raises
\* included, has valid = (errors empty) and a safe_query exactly when valid.
C10_VerdictWellFormed ==
    /\ (vpc \in {"validated", "revalidated"}) => WellFormed(verdict)
    /\ (vpc = "revalidated") => WellFormed(reverdict)

C10_Witness ==
    /\ vpc = "validated"
    /\ sql_query = None
    /\ ~verdict.valid
    /\ verdict.errors # <<>>
    /\ verdict.safe_query = None

----------------------------------------------------------------------------
(* Properties of the security score (in tenths of a point) *)

\* C11: the security score of every verdict, whatever the errors, warnings,
\* JOINs and length of the text, lies in [0, 10].
C11_ScoreInRange ==
    /\ (vpc \in {"validated", "revalidated"}) =>
          (verdict.security_score >= 0 /\ verdict.security_score <= 100)
    /\ (vpc = "revalidated") =>
          (reverdict.security_score >= 0 /\ reverdict.security_score <= 100)

\* A text with so many errors that the unclamped score is below zero
C11_Witness ==
    /\ vpc = "validated"
    /\ sql_query # None
    /\ 100 - 30 * Len(verdict.errors) - 5 * Len(verdict.warnings) < 0
    /\ verdict.security_score = 0

Penalty(e, w, L, j) ==
    30 * e + 5 * w + (IF L > 1000 THEN 10 ELSE 0) + (IF j > 5 THEN 2 * j ELSE 0)

\* C12: for a text with e errors, w warnings, length L and j JOINs the score
\* is clamp(10 - 3e - 0.5w - (1 if L > 1000) - (0.2j if j > 5), 0, 10).
C12_ScoreFormula ==
    Validated =>
        LET p == Penalty(Len(verdict.errors), Len(verdict.warnings),
                         StrLen(sql_query), Count(sql_query, "JOIN"))
        IN  verdict.security_score = (IF p > 100 THEN 0 ELSE 100 - p)

\* A valid text of more than 1000 characters with six JOINs: 10 - 0.5 - 1 - 1.2
C12_Witness ==
    /\ vpc = "validated"
    /\ sql_query # None
    /\ Count(sql_query, "JOIN") = 6
    /\ StrLen(sql_query) > 1000
    /\ verdict.errors = <<>>
    /\ verdict.security_score = 73

----------------------------------------------------------------------------
(* QAAgent.validate_report.  Scores are in tenths of a point; a feedback   *)
(* text is the sequence of the parts appended to it.                       *)

\* The scores the review producer can give
Scores == {0, 30, 49, 50, 69, 70, 100}

\* What the LLM capability can answer to the review prompt: it raises, or its
\* content is not JSON, is JSON without a required field, carries a score that
\* is a non-numeric string (float raises ValueError) or null (float raises
\* TypeError), or is a record with the three required fields, whose feedback
\* is a string, a JSON list or another JSON value (null, number, boolean,
\* object), with or without the optional lists specific_issues, suggestions
\* and highlights.
FeedbackKinds == {"text", "list", "other"}

QAResponses ==
    {[kind |-> k, approved |-> FALSE, overall_score |-> 0,
      feedback_kind |-> "text", has_lists |-> FALSE] :
        k \in {"raise", "bad_json", "missing_field", "bad_score", "null_score"}}
    \cup {[kind |-> "record", approved |-> a, overall_score |-> sc,
           feedback_kind |-> t, has_lists |-> l] :
            a \in BOOLEAN, sc \in Scores, t \in FeedbackKinds, l \in BOOLEAN}

\* A feedback that is a JSON list: the marker, followed by what `+=` extended
\* the list with (list += str appends the characters of the string)
ListFeedback == <<"<list>">>

\* str(n), character by character
DigitCharacter(d) ==
    CASE d = 0 -> "0" [] d = 1 -> "1" [] d = 2 -> "2" [] d = 3 -> "3"
      [] d = 4 -> "4" [] d = 5 -> "5" [] d = 6 -> "6" [] d = 7 -> "7"
      [] d = 8 -> "8" [] d = 9 -> "9"

RECURSIVE Digits(_)
Digits(n) ==
    IF n < 10 THEN <<DigitCharacter(n)>>
    ELSE Append(Digits(n \div 10), DigitCharacter(n % 10))

\* The characters of the two notes of _apply_iteration_logic:
\* f"\n\n[NOTA: Aprobado al alcanzar máximo de iteraciones
\* ({max_iterations})]" and f"\n\n[ADVERTENCIA: Máximo de iteraciones
\* alcanzado ({max_iterations}). Reporte con calidad limitada.]"
note_characters(note, max_iter) ==
    IF note = "approved_at_max_iterations"
    THEN <<"\n", "\n", "[", "N", "O", "T", "A", ":", " ",
           "A", "p", "r", "o", "b", "a", "d", "o", " ", "a", "l", " ",
           "a", "l", "c", "a", "n", "z", "a", "r", " ",
           "m", "á", "x", "i", "m", "o", " ", "d", "e", " ",
           "i", "t", "e", "r", "a", "c", "i", "o", "n", "e", "s", " ", "(">>
         \o Digits(max_iter) \o <<")", "]">>
    ELSE <<"\n", "\n", "[", "A", "D", "V", "E", "R", "T", "E", "N", "C",
           "I", "A", ":", " ", "M", "á", "x", "i", "m", "o", " ", "d", "e", " ",
           "i", "t", "e", "r", "a", "c", "i", "o", "n", "e", "s", " ",
           "a", "l", "c", "a", "n", "z", "a", "d", "o", " ", "(">>
         \o Digits(max_iter)
         \o <<")", ".", " ", "R", "e", "p", "o", "r", "t", "e", " ",
              "c", "o", "n", " ", "c", "a", "l", "i", "d", "a", "d", " ",
              "l", "i", "m", "i", "t", "a", "d", "a", ".", "]">>

\* qa_result["feedback"] += note: a text is followed by the note, and a list
\* is extended with the characters of the note, one element each
plus_note(feedback, note, max_iter) ==
    IF feedback # <<>> /\ Head(feedback) = "<list>"
    THEN feedback \o note_characters(note, max_iter)
    ELSE Append(feedback, note)

\* except (json.JSONDecodeError, ValueError): the fallback record
QAFallback ==
    [approved |-> FALSE, overall_score |-> 50, feedback |-> <<"parse_error">>,
     specific_issues |-> <<"parse_error">>, suggestions |-> <<"check_format">>,
     highlights |-> <<>>, metadata |-> {}]

\* validate_report's except Exception: the error record, which has no
\* highlights key
QAError ==
    [approved |-> FALSE, overall_score |-> 0,
     feedback |-> <<"validation_error">>,
     specific_issues |-> <<"error">>, suggestions |-> <<"check_config">>,
     highlights |-> Absent, metadata |-> {"error"}]

\* A list of the producer's record, or the setdefault value when it is absent
OptionalList(r) == IF r.has_lists THEN <<"item">> ELSE <<>>

\* Whether _parse_qa_response lets an exception out (float(None) is a
\* TypeError, which its except clause does not name)
parse_qa_response_raises(r) == r.kind = "null_score"

\* _parse_qa_response, when it returns
parse_qa_response(r) ==
    IF r.kind \in {"bad_json", "missing_field", "bad_score"}
    THEN QAFallback
    ELSE [approved |-> r.approved, overall_score |-> r.overall_score,
          feedback |-> CASE r.feedback_kind = "text" -> <<"feedback">>
                         [] r.feedback_kind = "list" -> ListFeedback
                         [] OTHER -> None,
          specific_issues |-> OptionalList(r), suggestions |-> OptionalList(r),
          highlights |-> OptionalList(r), metadata |-> {}]

\* Whether _apply_iteration_logic raises: at the cap it does feedback += str,
\* a TypeError when the feedback is neither a string nor a list
apply_iteration_logic_raises(qa, count, max_iter) ==
    count >= max_iter /\ qa.feedback = None

\* _apply_iteration_logic with the relaxed threshold in place of the normal one
apply_iteration_logic_relaxed(qa, count, max_iter) ==
    IF count >= max_iter
    THEN IF qa.overall_score >= 50
         THEN [qa EXCEPT !.approved = TRUE,
                         !.feedback = plus_note(@, "approved_at_max_iterations",
                                                max_iter)]
         ELSE [qa EXCEPT !.feedback = plus_note(@, "limited_quality_warning",
                                                max_iter)]
    ELSE [qa EXCEPT !.approved = (qa.overall_score >= 50)]

\* _apply_iteration_logic, when it returns
apply_iteration_logic(qa, count, max_iter) ==
    IF count >= max_iter
    THEN IF qa.overall_score >= 50
         THEN [qa EXCEPT !.approved = TRUE,
                         !.feedback = plus_note(@, "approved_at_max_iterations",
                                                max_iter)]
         ELSE [qa EXCEPT !.feedback = plus_note(@, "limited_quality_warning",
                                                max_iter)]
    ELSE [qa EXCEPT !.approved = (qa.overall_score >= 70)]

\* validate_report: the record it returns for an answer of the capability,
\* analysis_ok telling whether the steps before the LLM call went through.
validate_report(r, count, max_iter, analysis_ok) ==
    IF ~analysis_ok \/ r.kind = "raise" \/ parse_qa_response_raises(r)
    THEN QAError
    ELSE LET parsed == parse_qa_response(r)
         IN  IF apply_iteration_logic_raises(parsed, count, max_iter)
             THEN QAError
             ELSE [apply_iteration_logic(parsed, count, max_iter) EXCEPT
                     !.metadata = IF count >= max_iter
                                  THEN {"max_iterations_reached"} ELSE {}]

AgentStageIdle == AgentIdle /\ ValIdle

QAInit ==
    /\ qpc = "call"
    /\ qa_response \in QAResponses
    /\ iteration_count \in 1..(MaxIterations + 1)
    /\ settings_max_iterations \in 1..MaxIterations
    /\ qa_result = NoQA
    /\ AgentStageIdle
    /\ VizIdle
    /\ WfIdle
    /\ RestIdle

\* validate_report up to its await: the data are analysed, the prompt is
\* formatted and self.llm.ainvoke(messages) is called; an exception in these
\* steps is caught by the except clause, which returns the error record.
InvokeReviewer ==
    /\ qpc = "call"
    /\ \E analysis_ok \in BOOLEAN :
         IF analysis_ok
         THEN qpc' = "llm" /\ qa_result' = qa_result
         ELSE /\ qpc' = "done"
              /\ qa_result' = validate_report(qa_response, iteration_count,
                                              settings_max_iterations, FALSE)
    /\ UNCHANGED <<qa_response, iteration_count, settings_max_iterations>>
    /\ UNCHANGED <<valVars, agentVars, vizVars, wfVars>>
    /\ UNCHANGED restVars

\* validate_report once the LLM has answered or raised: the answer is
\* parsed, the iteration logic is applied and the record is returned.
ValidateReport ==
    /\ qpc = "llm"
    /\ qa_result' = validate_report(qa_response, iteration_count,
                                    settings_max_iterations, TRUE)
    /\ qpc' = "done"
    /\ UNCHANGED <<qa_response, iteration_count, settings_max_iterations>>
    /\ UNCHANGED <<valVars, agentVars, vizVars, wfVars>>
    /\ UNCHANGED restVars

QANext == InvokeReviewer \/ ValidateReport

QASpec == QAInit /\ [][QANext]_vars

----------------------------------------------------------------------------
(* Properties of the review stage *)

Reviewed == qpc = "done"
AtCap == iteration_count >= settings_max_iterations

\* C13: at the cap (iteration_count >= max_iterations) the returned approved
\* flag equals (overall_score >= 5.0), whatever flag the producer supplied.
C13_AtCapApprovedByScore ==
    (Reviewed /\ AtCap) => (qa_result.approved = (qa_result.overall_score >= 50))

\* C14: below the cap the returned approved flag equals
\* (overall_score >= 7.0), whatever flag the producer supplied.
C14_BelowCapApprovedByScore ==
    (Reviewed /\ ~AtCap) => (qa_result.approved = (qa_result.overall_score >= 70))

\* Below the cap: the producer approved a 6.9 and the stage rejects it, or
\* the producer rejected a 7.0 and the stage approves it.
C14_Witness ==
    /\ Reviewed /\ ~AtCap
    /\ qa_response.kind = "record"
    /\ qa_response.approved # qa_result.approved
    /\ qa_result.overall_score \in {69, 70}
    /\ qa_result.metadata = {}

Malformed == qa_response.kind \in {"bad_json", "missing_field", "bad_score"}

\* C20: when the producer's output cannot be decoded (invalid JSON, missing
\* required field, non-numeric score) the review stage returns, at any
\* iteration position, approved = false and the minimum score.
C20_MalformedDegrades ==
    (Reviewed /\ Malformed) =>
        (~qa_result.approved /\ qa_result.overall_score = 0)

----------------------------------------------------------------------------
(* VisualizationAgent.create_visualization *)

\* The chart types _generate_chart knows, and one it does not
ChartTypes == {"bar", "line", "scatter", "pie", "heatmap", "histogram", "other"}

\* What the LLM capability can answer to the chart prompt: it raises, or its
\* content is not JSON, is JSON without a required field, or is a decision
\* with chart_type and title, with or without the optional reasoning.
ChartResponses ==
    {[kind |-> k, chart_type |-> "", has_reasoning |-> FALSE] :
        k \in {"raise", "bad_json", "missing_field"}}
    \cup {[kind |-> "record", chart_type |-> t, has_reasoning |-> h] :
            t \in ChartTypes, h \in BOOLEAN}

\* except json.JSONDecodeError: the fallback decision
ChartFallback == [chart_type |-> "bar", has_reasoning |-> TRUE]

\* The bare image returned for empty data
VizBytes == [kind |-> "bytes", success |-> FALSE, chart_type |-> "", error |-> ""]

\* The record of step 5
VizSuccess(decision) ==
    [kind |-> "record", success |-> TRUE, chart_type |-> decision.chart_type,
     error |-> ""]

\* The record of the except clause
VizFailure(msg) ==
    [kind |-> "record", success |-> FALSE, chart_type |-> "error", error |-> msg]

\* An exception that leaves create_visualization
VizRaised(msg) ==
    [kind |-> "raised", success |-> FALSE, chart_type |-> "", error |-> msg]

VizInit ==
    /\ vzpc = "call"
    /\ data_results \in RowSets
    /\ chart_response \in ChartResponses
    /\ chart_decision = NoChartDecision
    /\ viz_error = ""
    /\ viz_result = NoViz
    /\ AgentStageIdle
    /\ QAIdle
    /\ WfIdle
    /\ RestIdle

\* if not data_results: return self._create_empty_chart(...); else steps 1-2,
\* pd.DataFrame and _analyze_data_structure, which may raise.
VizStart ==
    /\ vzpc = "call"
    /\ IF data_results = <<>>
       THEN \E rendered \in BOOLEAN :
              IF rendered
              THEN vzpc' = "done" /\ viz_result' = VizBytes /\ viz_error' = viz_error
              ELSE vzpc' = "handler" /\ viz_result' = viz_result
                   /\ viz_error' = "render"
       ELSE \E analysed \in BOOLEAN :
              IF analysed
              THEN vzpc' = "decide" /\ viz_result' = viz_result
                   /\ viz_error' = viz_error
              ELSE vzpc' = "handler" /\ viz_result' = viz_result
                   /\ viz_error' = "analysis"
    /\ UNCHANGED <<data_results, chart_response, chart_decision>>
    /\ UNCHANGED <<valVars, agentVars, qaVars, wfVars>>
    /\ UNCHANGED restVars

\* Step 3: _decide_chart_type awaits the LLM and parses its content;
\* _parse_chart_decision catches only json.JSONDecodeError.
DecideChart ==
    /\ vzpc = "decide"
    /\ CASE chart_response.kind = "raise" ->
              vzpc' = "handler" /\ viz_error' = "llm"
              /\ chart_decision' = chart_decision
         [] chart_response.kind = "missing_field" ->
              vzpc' = "handler" /\ viz_error' = "missing_field"
              /\ chart_decision' = chart_decision
         [] chart_response.kind = "bad_json" ->
              vzpc' = "render" /\ viz_error' = viz_error
              /\ chart_decision' = ChartFallback
         [] OTHER ->
              vzpc' = "render" /\ viz_error' = viz_error
              /\ chart_decision' = [chart_type |-> chart_response.chart_type,
                                    has_reasoning |-> chart_response.has_reasoning]
    /\ UNCHANGED <<data_results, chart_response, viz_result>>
    /\ UNCHANGED <<valVars, agentVars, qaVars, wfVars>>
    /\ UNCHANGED restVars

\* Steps 4-5: _generate_chart plots and converts the figure to bytes, either
\* of which may raise; the result record reads chart_decision["reasoning"].
GenerateChart ==
    /\ vzpc = "render"
    /\ \E rendered \in BOOLEAN :
         CASE ~rendered ->
                vzpc' = "handler" /\ viz_error' = "render"
                /\ viz_result' = viz_result
           [] rendered /\ ~chart_decision.has_reasoning ->
                vzpc' = "handler" /\ viz_error' = "reasoning"
                /\ viz_result' = viz_result
           [] OTHER ->
                vzpc' = "done" /\ viz_error' = viz_error
                /\ viz_result' = VizSuccess(chart_decision)
    /\ UNCHANGED <<data_results, chart_response, chart_decision>>
    /\ UNCHANGED <<valVars, agentVars, qaVars, wfVars>>
    /\ UNCHANGED restVars

\* except Exception as e: the failure record, whose visualization is
\* self._create_error_chart(str(e)): a figure converted to bytes by
\* fig.to_image, which may raise inside the handler.
HandleVizError ==
    /\ vzpc = "handler"
    /\ \E rendered \in BOOLEAN :
         viz_result' = IF rendered THEN VizFailure(viz_error)
                       ELSE VizRaised("render")
    /\ vzpc' = "done"
    /\ UNCHANGED <<data_results, chart_response, chart_decision, viz_error>>
    /\ UNCHANGED <<valVars, agentVars, qaVars, wfVars>>
    /\ UNCHANGED restVars

VizNext == VizStart \/ DecideChart \/ GenerateChart \/ HandleVizError

VizSpec == VizInit /\ [][VizNext]_vars

\* C19: no stage adapter raises; create_visualization, like process_query and
\* validate_report, returns a tagged failure value for every outcome of the
\* external capabilities, rendering errors included.
C19_NoAdapterRaises ==
    (vzpc = "done") => (viz_result.kind # "raised")

----------------------------------------------------------------------------
(* The workflow graph of create_workflow_graph.  Its nodes call the three  *)
(* agents modelled above and the PDF generator; what a node writes into    *)
(* the state with the value its agent returns, and the routing function,   *)
(* follow the pipeline orchestrator's state machine: Generating,           *)
(* Validating and Executing are the steps of process_query inside the node *)
(* sql_agent, Visualizing is visualization_agent, Reviewing is qa_agent,   *)
(* Reporting is pdf_generator, Done is END.  Where the run goes after a    *)
(* node is decided by the edges of the graph: a node that returns is       *)
(* followed by the target of its edge, and a node that raises ends the run *)
(* as an exception of the graph, its state update lost.                    *)

\* The answers of the capabilities considered in a workflow run
WfLLMResponses ==
    {[kind |-> "raise", sql_query |-> None],
     [kind |-> "record", sql_query |-> <<"SELECT">>],
     [kind |-> "record", sql_query |-> <<"DROP">>]}

WfChartResponses ==
    {[kind |-> "raise", chart_type |-> "", has_reasoning |-> FALSE],
     [kind |-> "record", chart_type |-> "bar", has_reasoning |-> TRUE]}

WfQAResponses ==
    {r \in QAResponses :
        \/ r.kind \in {"raise", "bad_json"}
        \/ r.kind = "record" /\ r.feedback_kind = "text" /\ ~r.has_lists
              /\ r.overall_score \in {30, 50, 70}}

\* graph.set_entry_point("sql_agent"), with the initial state of a request
WfInit ==
    /\ wf_node = "sql_agent"
    /\ iteration_count = 1
    /\ max_iterations \in 1..MaxIterations
    /\ settings_max_iterations \in 1..MaxIterations
    /\ state_errors = <<>>
    /\ generating_entries = 1
    /\ last_route = "none"
    /\ stage_trace = <<"sql_agent">>
    /\ pc = "metadata"
    /\ llm_response \in WfLLMResponses
    /\ validation_result = NoVerdict
    /\ executed = <<>>
    /\ result = NoResult
    /\ qpc = "idle"
    /\ qa_response = NoQAResponse
    /\ qa_result = NoQA
    /\ ValIdle
    /\ VizIdle
    /\ PdfIdle /\ DbIdle
    /\ EmptyCache
    /\ db_up = TRUE

\* The fixed edges with the edge out of sql_agent leading to qa_agent
EdgeTargetSkipping(node) ==
    CASE node = "sql_agent" -> "qa_agent"
      [] node = "visualization_agent" -> "qa_agent"
      [] node = "pdf_generator" -> "END"

\* The fixed edges of add_edge
EdgeTarget(node) ==
    CASE node = "sql_agent" -> "visualization_agent"
      [] node = "visualization_agent" -> "qa_agent"
      [] node = "pdf_generator" -> "END"

\* sql_agent_node, once process_query has returned.  The node returns, with
\* the error of a failure record appended to the errors of the state, and
\* the run goes on along the edge sql_agent -> visualization_agent with the
\* data_results of the record (none, for a failure); or, on a failure
\* record, the node raises and the run ends as an exception of the graph.
\* create_visualization asks the LLM for a chart only when there are data.
SqlAgentNode ==
    /\ wf_node = "sql_agent"
    /\ pc = "done"
    /\ \/ /\ wf_node' = EdgeTarget("sql_agent")
          /\ stage_trace' = Append(stage_trace, EdgeTarget("sql_agent"))
          /\ state_errors' = IF result.success THEN state_errors
                             ELSE Append(state_errors, result.error)
          /\ vzpc' = "call"
          /\ data_results' = result.data_results
          /\ chart_response' \in IF result.data_results = <<>>
                                  THEN {NoChartResponse}
                                  ELSE WfChartResponses
          /\ UNCHANGED <<chart_decision, viz_error, viz_result>>
       \/ /\ ~result.success
          /\ wf_node' = "Crashed"
          /\ UNCHANGED <<stage_trace, state_errors>>
          /\ UNCHANGED vizVars
    /\ UNCHANGED <<max_iterations, generating_entries, last_route>>
    /\ UNCHANGED <<valVars, agentVars, qaVars>>
    /\ UNCHANGED restVars

\* visualization_agent_node, once create_visualization has returned or
\* raised: the edge visualization_agent -> qa_agent; an exception of the
\* agent ends the run as an exception of the graph.
VisualizationAgentNode ==
    /\ wf_node = "visualization_agent"
    /\ vzpc = "done"
    /\ IF viz_result.kind = "raised"
       THEN /\ wf_node' = "Crashed"
            /\ stage_trace' = stage_trace
            /\ UNCHANGED <<qpc, qa_response>>
       ELSE /\ wf_node' = EdgeTarget("visualization_agent")
            /\ stage_trace' = Append(stage_trace, EdgeTarget("visualization_agent"))
            /\ qpc' = "call"
            /\ qa_response' \in WfQAResponses
    /\ UNCHANGED <<iteration_count, settings_max_iterations, qa_result>>
    /\ UNCHANGED <<max_iterations, state_errors, generating_entries, last_route>>
    /\ UNCHANGED <<valVars, agentVars, vizVars>>
    /\ UNCHANGED restVars

\* qa_routing_function: the label of the conditional edge after qa_agent
qa_routing_function(qa, count, max_iter) ==
    IF qa.approved THEN "approved"
    ELSE IF count < max_iter THEN "rejected"
    ELSE "max_iterations_reached"

\* The mapping of the conditional edges with the cap label sent to sql_agent
RouteTargetLooping(label) ==
    IF label = "approved" THEN "pdf_generator" ELSE "sql_agent"

\* The mapping of add_conditional_edges
RouteTarget(label) ==
    CASE label = "approved" -> "pdf_generator"
      [] label = "rejected" -> "sql_agent"
      [] label = "max_iterations_reached" -> "pdf_generator"

\* qa_agent_node, once validate_report has returned, and the conditional
\* edge: a return to sql_agent increments iteration_count and starts the
\* next generation pass with the review verdict kept in the state.
QARouting ==
    /\ wf_node = "qa_agent"
    /\ qpc = "done"
    /\ LET label == qa_routing_function(qa_result, iteration_count, max_iterations)
           target == RouteTarget(label)
       IN  /\ last_route' = label
           /\ wf_node' = target
           /\ stage_trace' = Append(stage_trace, target)
           /\ IF target = "sql_agent"
              THEN /\ iteration_count' = iteration_count + 1
                   /\ generating_entries' = generating_entries + 1
                   /\ pc' = "metadata"
                   /\ llm_response' \in WfLLMResponses
                   /\ validation_result' = NoVerdict
                   /\ result' = NoResult
                   /\ vzpc' = "idle"
                   /\ data_results' = <<>>
                   /\ chart_response' = NoChartResponse
                   /\ chart_decision' = NoChartDecision
                   /\ viz_error' = ""
                   /\ viz_result' = NoViz
                   /\ qpc' = "idle"
                   /\ qa_response' = NoQAResponse
              ELSE /\ UNCHANGED <<iteration_count, generating_entries>>
                   /\ UNCHANGED <<pc, llm_response, validation_result, result>>
                   /\ UNCHANGED vizVars
                   /\ UNCHANGED <<qpc, qa_response>>
    /\ UNCHANGED <<settings_max_iterations, qa_result>>
    /\ UNCHANGED <<max_iterations, state_errors, executed>>
    /\ UNCHANGED valVars
    /\ UNCHANGED restVars

\* pdf_generator_node and the edge pdf_generator -> END: the run ends after
\* the node.  generate_report raises PDFGenerationError when the document
\* cannot be assembled; the run that ends with that error attached and no
\* document is the one called Failed.
PdfGeneratorNode ==
    /\ wf_node = "pdf_generator"
    /\ \E assembled \in BOOLEAN :
         IF assembled
         THEN wf_node' = EdgeTarget("pdf_generator") /\ state_errors' = state_errors
         ELSE wf_node' = "Failed" /\ state_errors' = Append(state_errors, "pdf")
    /\ UNCHANGED <<max_iterations, generating_entries, last_route, stage_trace>>
    /\ UNCHANGED <<valVars, agentVars, qaVars, vizVars>>
    /\ UNCHANGED restVars

WfNext ==
    \/ AgentNext
    \/ SqlAgentNode
    \/ VizNext
    \/ VisualizationAgentNode
    \/ QANext
    \/ QARouting
    \/ PdfGeneratorNode

\* Each stage that is started returns: the run is never suspended for ever
\* while a step is enabled.
WorkflowSpec == WfInit /\ [][WfNext]_vars /\ WF_vars(WfNext)

----------------------------------------------------------------------------
(* Properties of the workflow *)

ReviewReturned == wf_node = "qa_agent" /\ qpc = "done"

HasNote(feedback, note) == \E i \in 1..Len(feedback) : feedback[i] = note

\* C15: after a review pass, approved routes to pdf_generator; not approved
\* with iteration_count < max_iterations routes to sql_agent with
\* iteration_count incremented; not approved with iteration_count >=
\* max_iterations routes to pdf_generator with the quality-warning note in
\* the feedback.
C15_PostReviewRouting ==
    [][ReviewReturned =>
         /\ qa_result.approved => wf_node' = "pdf_generator"
         /\ (~qa_result.approved /\ iteration_count < max_iterations) =>
               (wf_node' = "sql_agent" /\ iteration_count' = iteration_count + 1)
         /\ (~qa_result.approved /\ iteration_count >= max_iterations) =>
               /\ wf_node' = "pdf_generator"
               /\ HasNote(qa_result.feedback, "limited_quality_warning")]_vars

\* C16: iteration_count starts at 1, never decreases, increases by exactly 1
\* on each return from qa_agent to sql_agent and at no other transition, and
\* never exceeds max_iterations + 1.
C16_IterationCount ==
    /\ iteration_count = 1
    /\ [](iteration_count <= max_iterations + 1)
    /\ [][IF wf_node = "qa_agent" /\ wf_node' = "sql_agent"
          THEN iteration_count' = iteration_count + 1
          ELSE iteration_count' = iteration_count]_vars

\* The last generation pass a run can have
C16_Witness ==
    /\ wf_node = "sql_agent"
    /\ last_route = "rejected"
    /\ iteration_count > 1
    /\ iteration_count = max_iterations

\* C17: every run whose stages all return reaches END or Failed, and
\* sql_agent is entered at most max_iterations times.
C17_Termination ==
    /\ [](generating_entries <= max_iterations)
    /\ [](wf_node # "Crashed") => <>(wf_node \in {"END", "Failed"})

\* A run that used all its generation passes and ended
C17_Witness ==
    /\ wf_node = "END"
    /\ generating_entries > 1
    /\ generating_entries = max_iterations

SqlAgentFailed == wf_node = "sql_agent" /\ pc = "done" /\ ~result.success

\* C18: when process_query fails (generation failure, invalid verdict or
\* execution fault) the run goes to Failed with the error attached, Failed
\* is never left, and no later stage runs on an invalid verdict or a failed
\* result.
C18_GenerationFailureTerminal ==
    /\ [][SqlAgentFailed =>
            /\ wf_node' = "Failed"
            /\ state_errors' = Append(state_errors, result.error)
            /\ generating_entries' = generating_entries]_vars
    /\ [][wf_node = "Failed" => wf_node' = "Failed"]_vars
    /\ [](wf_node \in {"visualization_agent", "qa_agent", "pdf_generator", "END"}
            => (result.success /\ validation_result.valid))

----------------------------------------------------------------------------
(* Frame and shape of the review verdict *)

\* The raw verdict handed to _apply_iteration_logic, and the state in which
\* validate_report is about to call it: the LLM has answered and
\* _parse_qa_response returns
RawVerdict == parse_qa_response(qa_response)
ControllerCalled ==
    /\ qpc = "llm"
    /\ qa_response.kind # "raise"
    /\ ~parse_qa_response_raises(qa_response)

CapNote(qa) ==
    IF qa.overall_score >= 50 THEN "approved_at_max_iterations"
    ELSE "limited_quality_warning"

SameButApproved(a, b) ==
    /\ a.overall_score = b.overall_score
    /\ a.specific_issues = b.specific_issues
    /\ a.suggestions = b.suggestions
    /\ a.highlights = b.highlights

\* C22: on every call the controller at the cap appends exactly one note to
\* the feedback, the forced-approval note when overall_score >= 5.0 and the
\* quality warning otherwise; below the cap it leaves feedback,
\* overall_score and the three lists unchanged.
C22_ControllerFrame ==
    [][(ControllerCalled /\ qpc' = "done") =>
          /\ SameButApproved(qa_result', RawVerdict)
          /\ qa_result'.feedback =
                IF AtCap THEN Append(RawVerdict.feedback, CapNote(RawVerdict))
                ELSE RawVerdict.feedback]_vars

IsText(v) == v # None /\ v # Absent /\ (v = <<>> \/ Head(v) # "<list>")
IsList(v) == v # None /\ v # Absent

\* C24: every verdict returned by validate_report, on the success, fallback
\* and exception paths, has a text feedback and the lists specific_issues,
\* suggestions and highlights.
C24_VerdictShape ==
    Reviewed =>
        /\ qa_result.approved \in BOOLEAN
        /\ qa_result.overall_score \in 0..100
        /\ IsText(qa_result.feedback)
        /\ IsList(qa_result.specific_issues)
        /\ IsList(qa_result.suggestions)
        /\ IsList(qa_result.highlights)

----------------------------------------------------------------------------
(* The cap of the controller and the order of the stages *)

\* Whether the controller treated the review pass as one at the cap
ControllerSawCap ==
    /\ "max_iterations_reached" \in qa_result.metadata
    /\ \/ HasNote(qa_result.feedback, "approved_at_max_iterations")
       \/ HasNote(qa_result.feedback, "limited_quality_warning")

\* C23: in a workflow whose state carries max_iterations = M the controller
\* applies the relaxed threshold and the cap note exactly when
\* iteration_count >= M, the cap of the post-review routing.
C23_ControllerCapIsWorkflowCap ==
    (ReviewReturned /\ qa_result.metadata # {"error"}) =>
        (ControllerSawCap <=> iteration_count >= max_iterations)

Follows(trace, i, node) == i > 1 /\ trace[i - 1] = node

\* C29: every qa_agent pass directly follows one visualization_agent pass,
\* which directly follows one sql_agent pass, which starts the run or
\* directly follows a qa_agent pass; pdf_generator runs at most once,
\* directly after a qa_agent pass, and nothing runs after it.
C29_StageOrder ==
    \A i \in 1..Len(stage_trace) :
        CASE stage_trace[i] = "sql_agent" ->
                i = 1 \/ Follows(stage_trace, i, "qa_agent")
          [] stage_trace[i] = "visualization_agent" ->
                Follows(stage_trace, i, "sql_agent")
          [] stage_trace[i] = "qa_agent" ->
                Follows(stage_trace, i, "visualization_agent")
          [] stage_trace[i] = "pdf_generator" ->
                Follows(stage_trace, i, "qa_agent") /\ i = Len(stage_trace)
          [] OTHER -> FALSE

\* A run of two review passes that ended after pdf_generator
C29_Witness ==
    /\ wf_node = "END"
    /\ stage_trace = <<"sql_agent", "visualization_agent", "qa_agent",
                       "sql_agent", "visualization_agent", "qa_agent",
                       "pdf_generator">>

----------------------------------------------------------------------------
(* The result handed from the visualization stage to the review stage *)

\* C25: for every data_results, the empty sequence included, and every
\* chart decision, create_visualization returns a result record (with the
\* fields visualization, chart_type, title and metadata); on empty data the
\* record carries the placeholder image.
C25_UsableVisualization ==
    (vzpc = "done") =>
        /\ viz_result.kind = "record"
        /\ viz_result.chart_type # ""

----------------------------------------------------------------------------
(* PDFGenerator.generate_report *)

\* The arguments of generate_report: the image (bytes, or None when the
\* state has no visualization), the rows, and the review's score (a number,
\* or a value of another type) and flag.
PdfInputs ==
    [visualization_image : {<<"png">>, None},
     data_results : RowSets,
     qa_score : Scores,
     qa_score_is_number : BOOLEAN,
     qa_approved : BOOLEAN]

AllIdleButPdf == AgentStageIdle /\ QAIdle /\ VizIdle /\ WfIdle /\ CacheIdle /\ DbIdle

PdfInit ==
    /\ ppc = "call"
    /\ pdf_input \in PdfInputs
    /\ pdf_html = ""
    /\ pdf_result = NoPdf
    /\ AllIdleButPdf

\* The value raised by `except Exception` of generate_report and by
\* _html_to_pdf
PDFGenerationError(html) == [kind |-> "PDFGenerationError", html |-> html]

\* Step 1: report_data; base64.b64encode raises on an image that is not
\* bytes.  _generate_insights and _generate_data_summary catch their own
\* exceptions.
PrepareReportData ==
    /\ ppc = "call"
    /\ IF pdf_input.visualization_image = None
       THEN ppc' = "done" /\ pdf_result' = PDFGenerationError(pdf_html)
       ELSE ppc' = "render" /\ pdf_result' = pdf_result
    /\ UNCHANGED <<pdf_input, pdf_html>>
    /\ UNCHANGED <<valVars, agentVars, stageVars, cacheVars, dbVars>>

\* Whether _create_basic_template builds its HTML: it formats
\* data['qa_score'] with :.1f, which raises on a score that is not a number.
basic_template_renders(input) == input.qa_score_is_number

\* _render_template: the report template, or on any exception of the
\* loading or rendering the basic template built in the code
render_template(input, template_ok) ==
    IF template_ok THEN "report_template"
    ELSE IF basic_template_renders(input) THEN "basic_template"
    ELSE "raised"

\* Step 2: html_content = await self._render_template(...)
RenderTemplate ==
    /\ ppc = "render"
    /\ \E template_ok \in BOOLEAN :
         LET html == render_template(pdf_input, template_ok)
         IN  IF html = "raised"
             THEN /\ ppc' = "done"
                  /\ pdf_html' = pdf_html
                  /\ pdf_result' = PDFGenerationError("template_fault")
             ELSE /\ ppc' = "convert"
                  /\ pdf_html' = html
                  /\ pdf_result' = pdf_result
    /\ UNCHANGED pdf_input
    /\ UNCHANGED <<valVars, agentVars, stageVars, cacheVars, dbVars>>

\* Step 3: pdf_bytes = self._html_to_pdf(html_content); a conversion fault
\* is raised as PDFGenerationError.
HtmlToPdf ==
    /\ ppc = "convert"
    /\ \E converted \in BOOLEAN :
         pdf_result' = IF converted THEN [kind |-> "document", html |-> pdf_html]
                       ELSE PDFGenerationError(pdf_html)
    /\ ppc' = "done"
    /\ UNCHANGED <<pdf_input, pdf_html>>
    /\ UNCHANGED <<valVars, agentVars, stageVars, cacheVars, dbVars>>

PdfNext == PrepareReportData \/ RenderTemplate \/ HtmlToPdf

PdfSpec == PdfInit /\ [][PdfNext]_vars

\* C26: whenever the report template cannot be loaded or rendered, or the
\* conversion to PDF fails, generate_report raises the document-generation
\* error and returns no document: a returned document was rendered from the
\* report template.
C26_AssemblyFaultsSurfaced ==
    (ppc = "done" /\ pdf_result.kind = "document") =>
        pdf_result.html = "report_template"

----------------------------------------------------------------------------
(* MetadataManager: the lookups called by concurrent tasks, clear_cache,   *)
(* refresh_cache, the clock and the database.  A run has at most MaxCalls   *)
(* calls of a lookup or of refresh_cache.                                  *)

AllIdleButCache == AgentStageIdle /\ QAIdle /\ VizIdle /\ WfIdle /\ PdfIdle /\ DbIdle

CacheInit ==
    /\ EmptyCache
    /\ db_up \in BOOLEAN
    /\ AllIdleButCache

NotTheCache == <<valVars, agentVars, stageVars, pdfVars, dbVars>>

GetFullSchema ==
    /\ calls < MaxCalls
    /\ calls' = calls + 1
    /\ \E t \in LookupTasks : begin_lookup(t, <<"full_schema">>)
    /\ UNCHANGED NotTheCache

GetDataDictionary ==
    /\ calls < MaxCalls
    /\ calls' = calls + 1
    /\ \E t \in LookupTasks : begin_lookup(t, <<"data_dictionary">>)
    /\ UNCHANGED NotTheCache

GetRelationships ==
    /\ calls < MaxCalls
    /\ calls' = calls + 1
    /\ \E t \in LookupTasks : begin_lookup(t, <<"relationships">>)
    /\ UNCHANGED NotTheCache

GetFewShotExamples ==
    /\ calls < MaxCalls
    /\ calls' = calls + 1
    /\ \E t \in LookupTasks : begin_lookup(t, <<"few_shot_examples">>)
    /\ UNCHANGED NotTheCache

\* A suspended lookup goes on
ResumeLookup ==
    /\ \E t \in LookupTasks : resume_lookup(t)
    /\ UNCHANGED calls
    /\ UNCHANGED NotTheCache

\* clear_cache
ClearCache ==
    /\ cache' = [k \in CacheKeys |-> NoEntry]
    /\ last_update' = [k \in CacheKeys |-> NoTime]
    /\ returned' = <<>>
    /\ UNCHANGED <<clock, db_up, lookup, calls>>
    /\ UNCHANGED NotTheCache

\* refresh_cache: clear_cache, then the four lookups, awaited in order; the
\* task is suspended for the first time in get_full_schema
RefreshCache ==
    /\ calls < MaxCalls
    /\ calls' = calls + 1
    /\ \E t \in LookupTasks :
         /\ lookup[t].phase = "idle"
         /\ becomes(t, call_lookups(t, MetadataKeys,
                                    [k \in CacheKeys |-> NoEntry],
                                    [k \in CacheKeys |-> NoTime], <<>>))
    /\ UNCHANGED NotTheCache

\* datetime.now() advances by half an hour
Tick ==
    /\ clock < MaxClock
    /\ clock' = clock + 1
    /\ returned' = <<>>
    /\ UNCHANGED <<cache, last_update, db_up, lookup, calls>>
    /\ UNCHANGED NotTheCache

\* The database starts failing, or recovers
DatabaseChanges ==
    /\ db_up' = ~db_up
    /\ returned' = <<>>
    /\ UNCHANGED <<clock, cache, last_update, lookup, calls>>
    /\ UNCHANGED NotTheCache

CacheNext ==
    \/ GetFullSchema
    \/ GetDataDictionary
    \/ GetRelationships
    \/ GetFewShotExamples
    \/ ResumeLookup
    \/ ClearCache
    \/ RefreshCache
    \/ Tick
    \/ DatabaseChanges

CacheSpec == CacheInit /\ [][CacheNext]_vars

----------------------------------------------------------------------------
(* Properties of the metadata cache *)

\* The key was stored strictly less than one hour ago
Fresh(key) ==
    /\ last_update[key] # NoTime
    /\ clock < last_update[key] + cache_ttl

\* Both dictionaries are empty after the step
Cleared ==
    /\ cache' = [j \in CacheKeys |-> NoEntry]
    /\ last_update' = [j \in CacheKeys |-> NoTime]

\* The return is that of a lookup that was suspended before the step
Resumed(r) ==
    /\ lookup[r.task].phase \in InProgress
    /\ lookup[r.task].key = r.key

\* The step leaves the task suspended in a lookup it has called in the step
NewlySuspended(t) ==
    /\ lookup'[t].phase = "first"
    /\ lookup'[t] # lookup[t]

\* The value is stored for the key, with the time of the step
StoredNow(key, value) ==
    /\ value # NoEntry
    /\ cache'[key] = value
    /\ last_update'[key] = clock

\* C27: a lookup of a key answers the stored value without contacting the
\* database if and only if, when it is called, the key was stored strictly
\* less than one hour earlier; otherwise the value is regenerated (from the
\* database, for the keys that come from it) and, the regeneration having
\* gone through, stored with the timestamp reset to the time of the store.
\* Only the keys looked up are written, and after clear_cache no key is
\* fresh: every key is regenerated on its next lookup.
C27_CacheTimeToLive ==
    [][/\ \A i \in 1..Len(returned') :
            LET r == returned'[i]
            IN  IF r.hit
                THEN /\ Fresh(r.key)
                     /\ ~Resumed(r)
                     /\ r.value = cache[r.key]
                     /\ cache'[r.key] = cache[r.key]
                     /\ last_update'[r.key] = last_update[r.key]
                ELSE IF Resumed(r)
                THEN /\ contacts_database(r.key)
                     /\ (db_up /\ lookup[r.task].complete) =>
                            StoredNow(r.key, r.value)
                ELSE /\ ~Fresh(r.key)
                     /\ ~contacts_database(r.key)
                     /\ StoredNow(r.key, r.value)
       /\ \A t \in LookupTasks :
            NewlySuspended(t) =>
               /\ contacts_database(lookup'[t].key)
               /\ ~Fresh(lookup'[t].key) \/ Cleared
               /\ cache'[lookup'[t].key] = IF Cleared THEN NoEntry
                                           ELSE cache[lookup'[t].key]
       /\ \A k \in CacheKeys :
            (cache'[k] # cache[k] \/ last_update'[k] # last_update[k]) =>
               \/ Cleared
               \/ \E i \in 1..Len(returned') :
                     /\ returned'[i].key = k
                     /\ ~returned'[i].hit
                     /\ StoredNow(k, returned'[i].value)
       /\ Cleared => \A k \in CacheKeys : ~Fresh(k)'
      ]_vars

\* A key looked up exactly one hour after it was stored, and regenerated
\* from the database while another task is suspended in refresh_cache
C27_Witness ==
    /\ returned = <<ReturnOf("agent", "full_schema", "schema", FALSE,
                             cache_ttl)>>
    /\ cache["full_schema"] = "schema"
    /\ last_update["full_schema"] = clock
    /\ lookup["other"].phase \in InProgress
    /\ lookup["other"].rest # <<>>

\* C28: when the database is failing while get_full_schema or
\* get_data_dictionary regenerates its key, nothing is stored: a lookup that
\* got no answer from the database leaves the cache and the timestamp of its
\* key unchanged.
C28_OnlyFetchedMetadataCached ==
    [][\A t \in LookupTasks :
         (/\ lookup[t].phase \in InProgress
          /\ lookup[t].key \in {"full_schema", "data_dictionary"}
          /\ lookup'[t] # lookup[t]
          /\ ~db_up \/ ~lookup[t].complete) =>
            /\ cache'[lookup[t].key] = cache[lookup[t].key]
            /\ last_update'[lookup[t].key] = last_update[lookup[t].key]]_vars

----------------------------------------------------------------------------
(* DatabaseManager.execute_query and the session context manager           *)
(* get_async_session it runs in, one step per await.                       *)

DbQueries == {<<"SELECT", "1">>, <<"SELECT", "*", "FROM", "t">>}
DbRowSets == {<<>>, <<"row">>, <<"row", "row">>}

\* Where the backend fails: in session.execute, while the rows are read, in
\* session.commit, or nowhere
FaultPoints == {"execute", "fetch", "commit"}

\* The exception a backend fault raises: both except clauses of
\* execute_query are exercised
FaultTypes == {"SQLAlchemyError", "Exception"}

DbCalls ==
    [sql_query : DbQueries, fault : {"none"}, fault_type : {"none"},
     rollback_fails : {FALSE}, rows : DbRowSets]
    \cup
    [sql_query : DbQueries, fault : FaultPoints, fault_type : FaultTypes,
     rollback_fails : BOOLEAN, rows : DbRowSets]

AllIdleButDb ==
    AgentStageIdle /\ QAIdle /\ VizIdle /\ WfIdle /\ PdfIdle /\ CacheIdle

DbInit ==
    /\ dpc = "call"
    /\ db_call \in DbCalls
    /\ db_exc = "none"
    /\ session = NoSession
    /\ db_outcome = NoDbOutcome
    /\ AllIdleButDb

\* get_async_session commits whatever the body did
session_exit_always_commits(exc) == "commit"

\* get_async_session after the yield: commit when the body returned, the
\* except clause when it raised
session_exit(exc) == IF exc = "none" THEN "commit" ELSE "rollback"

\* async with self.get_async_session() as session, then the call of
\* session.execute(text(sql_query), params), which is awaited with no timeout
OpenSession ==
    /\ dpc = "call"
    /\ session' = [session EXCEPT !.opened = TRUE]
    /\ dpc' = "awaiting"
    /\ UNCHANGED <<db_call, db_exc, db_outcome>>
    /\ UNCHANGED <<valVars, agentVars, stageVars, pdfVars, cacheVars>>

\* The backend answers session.execute, with a result or with an error
BackendAnswers ==
    /\ dpc = "awaiting"
    /\ db_exc' = IF db_call.fault = "execute" THEN db_call.fault_type ELSE "none"
    /\ dpc' = IF db_call.fault = "execute" THEN session_exit(db_call.fault_type)
              ELSE "fetch"
    /\ UNCHANGED <<db_call, session, db_outcome>>
    /\ UNCHANGED <<valVars, agentVars, stageVars, pdfVars, cacheVars>>

\* result.keys(), result.fetchall() and the loop that builds data; return
\* data leaves the with block, which resumes get_async_session
FetchRows ==
    /\ dpc = "fetch"
    /\ db_exc' = IF db_call.fault = "fetch" THEN db_call.fault_type ELSE "none"
    /\ dpc' = session_exit(db_exc')
    /\ UNCHANGED <<db_call, session, db_outcome>>
    /\ UNCHANGED <<valVars, agentVars, stageVars, pdfVars, cacheVars>>

\* await session.commit()
Commit ==
    /\ dpc = "commit"
    /\ IF db_call.fault = "commit"
       THEN /\ db_exc' = db_call.fault_type
            /\ dpc' = "rollback"
            /\ UNCHANGED session
       ELSE /\ session' = [session EXCEPT !.committed = TRUE]
            /\ dpc' = "close"
            /\ UNCHANGED db_exc
    /\ UNCHANGED <<db_call, db_outcome>>
    /\ UNCHANGED <<valVars, agentVars, stageVars, pdfVars, cacheVars>>

\* except Exception: await session.rollback(), then raise; when the rollback
\* raises, its exception is the one that leaves the context manager
Rollback ==
    /\ dpc = "rollback"
    /\ session' = [session EXCEPT !.rolled_back = TRUE]
    /\ db_exc' = IF db_call.rollback_fails THEN "SQLAlchemyError" ELSE db_exc
    /\ dpc' = "close"
    /\ UNCHANGED <<db_call, db_outcome>>
    /\ UNCHANGED <<valVars, agentVars, stageVars, pdfVars, cacheVars>>

\* finally: await session.close()
Close ==
    /\ dpc = "close"
    /\ session' = [session EXCEPT !.closed = TRUE]
    /\ dpc' = "return"
    /\ UNCHANGED <<db_call, db_exc, db_outcome>>
    /\ UNCHANGED <<valVars, agentVars, stageVars, pdfVars, cacheVars>>

\* execute_query returns data, or one of its two except clauses raises
\* DatabaseError
ExecuteQueryReturns ==
    /\ dpc = "return"
    /\ db_outcome' = IF db_exc = "none"
                     THEN [kind |-> "rows", rows |-> db_call.rows]
                     ELSE [kind |-> "DatabaseError", rows |-> <<>>]
    /\ dpc' = "done"
    /\ UNCHANGED <<db_call, db_exc, session>>
    /\ UNCHANGED <<valVars, agentVars, stageVars, pdfVars, cacheVars>>

\* The steps execute_query takes by itself
DbProgram ==
    \/ OpenSession
    \/ FetchRows
    \/ Commit
    \/ Rollback
    \/ Close
    \/ ExecuteQueryReturns

DbNext == DbProgram \/ BackendAnswers

\* The program's own steps are taken when they can be; nothing obliges the
\* backend to answer
DbSpec == DbInit /\ [][DbNext]_vars /\ WF_vars(DbProgram)

----------------------------------------------------------------------------
(* Properties of execute_query *)

\* The backend call failed, or the commit did
BodyOrCommitRaised == db_call.fault \in FaultPoints

\* C30: once execute_query has ended, the session it opened is closed; it was
\* committed only if neither the body nor the commit raised and rolled back
\* whenever one of them did; with a backend fault the call ends in a
\* DatabaseError carrying no rows, without one it returns all the rows.  A
\* session is never committed after its body raised, at any step.
C30_SessionLifecycle ==
    /\ session.committed => (db_exc = "none" /\ db_call.fault = "none")
    /\ dpc = "done" =>
          /\ session.opened /\ session.closed
          /\ session.committed <=> ~BodyOrCommitRaised
          /\ session.rolled_back <=> BodyOrCommitRaised
          /\ IF BodyOrCommitRaised
             THEN db_outcome = [kind |-> "DatabaseError", rows |-> <<>>]
             ELSE db_outcome = [kind |-> "rows", rows |-> db_call.rows]

\* A call whose rows were read and whose commit then failed
C30_Witness ==
    /\ dpc = "done"
    /\ db_call.fault = "commit"
    /\ db_call.fault_type = "Exception"
    /\ db_call.rows = <<"row", "row">>
    /\ session.rolled_back
    /\ session.closed
    /\ db_outcome.kind = "DatabaseError"

\* C21: a call of execute_query that is waiting for the backend eventually
\* ends, whether or not the backend ever answers.
C21_NoCallLeftPending == (dpc = "awaiting") ~> (dpc = "done")

====
